---- MODULE Spec2Model ----
(***************************************************************************)
(* AtomicOption<T> (src/src/lib.rs): a single atomic slot holding either   *)
(* null or the address of one heap-allocated T, changed only by an atomic  *)
(* exchange.  The model keeps the slot, the heap the boxes live in, every  *)
(* caller's position inside swap/take/store, and ghost bookkeeping (value  *)
(* identities, release counts, the order of the exchange steps).           *)
(***************************************************************************)
EXTENDS Integers, Sequences, FiniteSets

VARIABLES inner, heap, nalloc, freed, doubleFree, mpc, mres,
          pc, op, addr, ret, held, steps, hist, win, pending,
          tpc, remain, vis, pub

\* inner       the AtomicPtr of line 8: Null or the address of the occupant
\* heap        per address: whether a box lives there, its identity, its payload
\* nalloc      ghost: number of identities handed out
\* freed       ghost: per identity, how often it was released
\* doubleFree  ghost: a box was released whose allocation was not live
\* mpc, mres   the owner of the container: "run", "taken" (after the take of
\*             line 110, its result in mres), "dropped" (after Drop)
\* pc          per thread: "idle", or the line of swap/store it is about to run
\* op          per thread: the operation it is inside ("none" outside calls)
\* addr        per thread: the local addr of swap (lines 25 and 31)
\* ret         per thread: what swap returned to store, until store drops it
\* held        per thread: the boxes it owns outside of calls
\* steps       ghost: per thread, own steps taken inside the current call
\* hist, win   ghost: the last win exchange steps, in the order they happened
\* pending     ghost: per identity, installs into the slot minus read-outs
\* tpc, remain test_two_threads: per thread, place in the loop and remain
\* vis         ghost: per thread, the addresses whose pointee it is guaranteed
\*             to observe as its last owner left it (it wrote the pointee
\*             itself, or a happens-before edge reaches it from the writer)
\* pub         ghost: the exchange that installed the occupant released the
\*             installing thread's writes to the pointee
vars == << inner, heap, nalloc, freed, doubleFree, mpc, mres,
           pc, op, addr, ret, held, steps, hist, win, pending,
           tpc, remain, vis, pub >>

(* ------------------------------ bounds --------------------------------- *)
\* number of client threads sharing the container
NThreads == 2
\* number of heap addresses the allocator can hand out (addresses are reused)
MaxAddr == 3
\* number of allocations with a tracked identity; the clients of Spec and
\* SpecSeq allocate no more than that
MaxAllocs == 3
\* largest payload a client puts in a box
MaxVal == 1
\* number of most recent exchange steps the ghost history keeps under Spec
HistLen == 1
\* the same under SpecSeq, where one caller runs call after call
SeqHistLen == 3
\* number of boxes a client holds before it stops allocating more
MaxHeld == 1
\* the loop count of test_two_threads (100 in the source)
MaxRemain == 2

Threads == 1..NThreads
Addrs   == 1..MaxAddr
Values  == 0..MaxVal
Ids     == 1..MaxAllocs

(* --------------------------- representation ---------------------------- *)
\* null_mut(): the address that denotes "no value"
Null == 0
\* Option<Box<T>>: None is the empty set, Some(box) the singleton of the box's
\* address
None == {}
Some(a) == {a}
\* the owner of the container (the thread that constructs and drops it)
Main == 0
\* test_two_threads: the thread running func1 and the thread running func2
Ins == 1
Rem == 2

\* a heap cell that holds no allocation
FreeCell == [live |-> FALSE, id |-> 0, val |-> 0]

\* lines 32-36: raw address back to Option<Box<T>>
FromRawPtr(a) == IF a = Null THEN None ELSE Some(a)

\* lines 25-29: Option<Box<T>> to raw address
IntoRawPtr(o) == IF o = None THEN Null ELSE CHOOSE a \in o : TRUE

\* an atomic load in place of the exchange: the new address is never written
AtomicLoad(cur, a) == [slot |-> cur, old |-> cur]
\* an exchange that never writes null: the old address stays in the slot
AtomicSwapKeep(cur, a) == [slot |-> IF a = Null THEN cur ELSE a, old |-> cur]
\* line 31: AtomicPtr::swap(addr, AcqRel): one indivisible read-modify-write
AtomicSwap(cur, a) == [slot |-> a, old |-> cur]

\* a relaxed exchange in place of the acquire-release one
Relaxed == "Relaxed"
\* line 31: the memory ordering of the exchange
Ordering == "AcqRel"
\* the orderings under which the exchange, as a store, releases the writes
\* its thread made before it
Releases(o) == o \in {"Release", "AcqRel", "SeqCst"}
\* the orderings under which the exchange, as a load, acquires what the
\* exchange it reads from released
Acquires(o) == o \in {"Acquire", "AcqRel", "SeqCst"}

\* ghost: the views after thread t wrote the pointees of b (a fresh
\* allocation: no other thread has seen it)
Wrote(v, t, b) == [x \in Threads |-> IF x = t THEN v[x] \cup b ELSE v[x] \ b]
\* ghost: the views after the allocations of b are released
Gone(v, b) == [x \in Threads |-> v[x] \ b]
\* ghost: the views after thread t read address old out of the slot: t
\* observes the pointee if the exchange synchronized with the one that
\* installed it (or if t had it in view already); the pointee has a new
\* owner, so no other thread is guaranteed to observe it any more
ReadOut(v, t, old, sync) ==
    [x \in Threads |->
        IF x = t THEN (IF sync THEN v[x] \cup FromRawPtr(old) ELSE v[x])
                 ELSE v[x] \ {old}]

\* ghost: identity of the allocation living at an address (0 for null)
IdOf(h, a) == IF a = Null THEN 0 ELSE h[a].id
\* payload of the allocation living at an address
ValOf(h, a) == IF a = Null THEN 0 ELSE h[a].val

\* Box::new(v) placed at address a: the next tracked identity, if any is left
Alloc(h, n, a, v) ==
    [h EXCEPT ![a] = [live |-> TRUE, id |-> IF n < MaxAllocs THEN n + 1 ELSE 0,
                      val |-> v]]
\* the number of identities handed out so far
Bump(n) == IF n < MaxAllocs THEN n + 1 ELSE n

\* drop of an Option<Box<T>>: the heap after the boxes of b are released
Release(h, b) == [a \in Addrs |-> IF a \in b THEN FreeCell ELSE h[a]]
\* ghost: release counts after the boxes of b are released
Count(h, f, b) ==
    [i \in Ids |-> f[i] + Cardinality({a \in b : h[a].live /\ h[a].id = i})]
\* ghost: releasing a box whose allocation is not live is a double free
Dangling(h, b) == \E a \in b : ~h[a].live

\* ghost: the history keeps the last w exchange steps
Record(h, e, w) == IF Len(h) < w THEN Append(h, e) ELSE Append(Tail(h), e)
\* ghost: the record of one exchange step: who ran it, inside which operation,
\* the identity and payload it installed and the identity it read out
Entry(t, o, h, a, old) ==
    [t |-> t, op |-> o, nid |-> IdOf(h, a), nval |-> ValOf(h, a),
     oid |-> IdOf(h, old)]

\* ghost: per identity, installs into the slot minus reads out of it
Settle(p, h, old, a) ==
    [i \in Ids |-> p[i] + (IF IdOf(h, a) = i THEN 1 ELSE 0)
                        - (IF IdOf(h, old) = i THEN 1 ELSE 0)]

(* ------------------------------- Init ---------------------------------- *)
\* a new that drops data instead of storing it
NewDropped(data, a, v) ==
    LET h0 == [x \in Addrs |-> FreeCell]
        h1 == IF data = None THEN h0 ELSE Alloc(h0, 0, a, v)
    IN  /\ inner = Null
        /\ heap = Release(h1, data)
        /\ nalloc = IF data = None THEN 0 ELSE 1
        /\ freed = Count(h1, [i \in Ids |-> 0], data)
        /\ doubleFree = FALSE
        /\ hist = << Entry(Main, "store", h1, IntoRawPtr(data), Null) >>
        /\ pending = Settle([i \in Ids |-> 0], h1, Null, IntoRawPtr(data))
        /\ vis = [t \in Threads |-> {}]
        /\ pub = FALSE

\* lines 14-21: new(data) builds an empty slot and runs store(data) on it
NewState(data, a, v) ==
    LET h0 == [x \in Addrs |-> FreeCell]
        h1 == IF data = None THEN h0 ELSE Alloc(h0, 0, a, v)
        r  == AtomicSwap(Null, IntoRawPtr(data))
        b  == FromRawPtr(r.old)
    IN  /\ inner = r.slot
        /\ heap = Release(h1, b)
        /\ nalloc = IF data = None THEN 0 ELSE 1
        /\ freed = Count(h1, [i \in Ids |-> 0], b)
        /\ doubleFree = Dangling(h1, b)
        /\ hist = << Entry(Main, "store", h1, IntoRawPtr(data), r.old) >>
        /\ pending = Settle([i \in Ids |-> 0], h1, r.old, IntoRawPtr(data))
        /\ vis = [t \in Threads |-> {}]
        /\ pub = (r.slot # Null)

\* no client has called anything yet
Idle ==
    /\ mpc = "run"
    /\ mres = None
    /\ pc = [t \in Threads |-> "idle"]
    /\ op = [t \in Threads |-> "none"]
    /\ addr = [t \in Threads |-> Null]
    /\ ret = [t \in Threads |-> None]
    /\ held = [t \in Threads |-> {}]
    /\ steps = [t \in Threads |-> 0]

\* the container right after new(None) or new(Some(Box::new(v)))
Init ==
    /\ \E a \in Addrs, v \in Values :
          \/ NewState(None, a, v)
          \/ NewState(Some(a), a, v)
    /\ Idle
    /\ win = HistLen
    /\ tpc = [t \in Threads |-> "free"]
    /\ remain = [t \in Threads |-> 0]

(* ------------------------------ clients -------------------------------- *)
\* Box::new(v) by a client that is not inside a call
BoxNew(t, a, v) ==
    /\ pc[t] = "idle"
    /\ Cardinality(held[t]) < MaxHeld
    /\ nalloc < MaxAllocs
    /\ ~heap[a].live
    /\ heap' = Alloc(heap, nalloc, a, v)
    /\ nalloc' = Bump(nalloc)
    /\ held' = [held EXCEPT ![t] = @ \cup {a}]
    /\ UNCHANGED << inner, freed, doubleFree, mpc, mres, pc, op, addr, ret,
                    steps, hist, win, pending, tpc, remain >>
    /\ vis' = Wrote(vis, t, {a})
    /\ UNCHANGED pub

\* a client drops a box it owns
DropBox(t, a) ==
    /\ pc[t] = "idle"
    /\ a \in held[t]
    /\ heap' = Release(heap, {a})
    /\ freed' = Count(heap, freed, {a})
    /\ doubleFree' = (doubleFree \/ Dangling(heap, {a}))
    /\ held' = [held EXCEPT ![t] = @ \ {a}]
    /\ UNCHANGED << inner, nalloc, mpc, mres, pc, op, addr, ret, steps, hist,
                    win, pending, tpc, remain >>
    /\ vis' = Gone(vis, {a})
    /\ UNCHANGED pub

(* ------------------------- swap / take / store ------------------------- *)
\* entry of swap(arg), take() (line 41: swap(None)) or store(arg) (line 46),
\* and lines 25-29: the argument moves into the call and becomes a raw address
Call(t, o, arg) ==
    /\ pc[t] = "idle"
    /\ mpc = "run"
    /\ o = "take" => arg = None
    /\ arg \subseteq held[t]
    /\ pc' = [pc EXCEPT ![t] = "l31"]
    /\ op' = [op EXCEPT ![t] = o]
    /\ addr' = [addr EXCEPT ![t] = IntoRawPtr(arg)]
    /\ held' = [held EXCEPT ![t] = @ \ arg]
    /\ steps' = [steps EXCEPT ![t] = 1]
    /\ UNCHANGED << inner, heap, nalloc, freed, doubleFree, mpc, mres, ret,
                    hist, win, pending, tpc, remain >>
    /\ UNCHANGED << vis, pub >>

\* an exchange that waits for the slot to be empty before it installs a value
ExchangeWhenEmpty(t) ==
    /\ pc[t] = "l31"
    /\ addr[t] # Null => inner = Null
    /\ inner' = addr[t]
    /\ addr' = [addr EXCEPT ![t] = inner]
    /\ hist' = Record(hist, Entry(t, op[t], heap, addr[t], inner), win)
    /\ pending' = Settle(pending, heap, inner, addr[t])
    /\ pc' = [pc EXCEPT ![t] = "l32"]
    /\ steps' = [steps EXCEPT ![t] = @ + 1]
    /\ UNCHANGED << heap, nalloc, freed, doubleFree, mpc, mres, op, ret, held,
                    win, tpc, remain >>
    /\ vis' = ReadOut(vis, t, inner, Acquires(Ordering) /\ pub)
    /\ pub' = (addr[t] # Null /\ Releases(Ordering) /\ addr[t] \in vis[t])

\* line 31: the atomic exchange, the linearization point of the call
Exchange(t) ==
    /\ pc[t] = "l31"
    /\ LET r == AtomicSwap(inner, addr[t])
       IN  /\ inner' = r.slot
           /\ addr' = [addr EXCEPT ![t] = r.old]
           /\ hist' = Record(hist, Entry(t, op[t], heap, addr[t], r.old), win)
           /\ pending' = Settle(pending, heap, r.old, addr[t])
           /\ vis' = ReadOut(vis, t, r.old, Acquires(Ordering) /\ pub)
           /\ pub' = /\ r.slot # Null
                     /\ Releases(Ordering)
                     /\ r.slot \in vis[t]
    /\ pc' = [pc EXCEPT ![t] = "l32"]
    /\ steps' = [steps EXCEPT ![t] = @ + 1]
    /\ UNCHANGED << heap, nalloc, freed, doubleFree, mpc, mres, op, ret, held,
                    win, tpc, remain >>

\* a swap that drops the old occupant itself instead of returning it
FromRawDropping(t) ==
    /\ pc[t] = "l32"
    /\ LET b == FromRawPtr(addr[t])
       IN  /\ heap' = Release(heap, b)
           /\ freed' = Count(heap, freed, b)
           /\ doubleFree' = (doubleFree \/ Dangling(heap, b))
    /\ pc' = [pc EXCEPT ![t] = "idle"]
    /\ op' = [op EXCEPT ![t] = "none"]
    /\ steps' = [steps EXCEPT ![t] = 0]
    /\ addr' = [addr EXCEPT ![t] = Null]
    /\ UNCHANGED << inner, nalloc, mpc, mres, ret, held, hist, win, pending,
                    tpc, remain >>
    /\ vis' = Gone(vis, FromRawPtr(addr[t]))
    /\ UNCHANGED pub

\* lines 32-36: the old address becomes the returned Option<Box<T>>; swap and
\* take hand it to the caller, store (line 46) keeps it to drop it
FromRaw(t) ==
    /\ pc[t] = "l32"
    /\ LET b == FromRawPtr(addr[t])
       IN  IF op[t] = "store"
           THEN /\ ret' = [ret EXCEPT ![t] = b]
                /\ pc' = [pc EXCEPT ![t] = "l46"]
                /\ steps' = [steps EXCEPT ![t] = @ + 1]
                /\ UNCHANGED << op, held >>
           ELSE /\ held' = [held EXCEPT ![t] = @ \cup b]
                /\ pc' = [pc EXCEPT ![t] = "idle"]
                /\ op' = [op EXCEPT ![t] = "none"]
                /\ steps' = [steps EXCEPT ![t] = 0]
                /\ UNCHANGED ret
    /\ addr' = [addr EXCEPT ![t] = Null]
    /\ UNCHANGED << inner, heap, nalloc, freed, doubleFree, mpc, mres, hist,
                    win, pending, tpc, remain >>
    /\ UNCHANGED << vis, pub >>

\* a store that forgets what swap returned instead of dropping it
StoreForget(t) ==
    /\ pc[t] = "l46"
    /\ ret' = [ret EXCEPT ![t] = None]
    /\ pc' = [pc EXCEPT ![t] = "idle"]
    /\ op' = [op EXCEPT ![t] = "none"]
    /\ steps' = [steps EXCEPT ![t] = 0]
    /\ UNCHANGED << inner, heap, nalloc, freed, doubleFree, mpc, mres, addr,
                    held, hist, win, pending, tpc, remain >>
    /\ UNCHANGED << vis, pub >>

\* line 46: store drops what swap returned
StoreDrop(t) ==
    /\ pc[t] = "l46"
    /\ heap' = Release(heap, ret[t])
    /\ freed' = Count(heap, freed, ret[t])
    /\ doubleFree' = (doubleFree \/ Dangling(heap, ret[t]))
    /\ ret' = [ret EXCEPT ![t] = None]
    /\ pc' = [pc EXCEPT ![t] = "idle"]
    /\ op' = [op EXCEPT ![t] = "none"]
    /\ steps' = [steps EXCEPT ![t] = 0]
    /\ UNCHANGED << inner, nalloc, mpc, mres, addr, held, hist, win, pending,
                    tpc, remain >>
    /\ vis' = Gone(vis, ret[t])
    /\ UNCHANGED pub

(* ------------------------------ teardown ------------------------------- *)
\* a Drop that takes the occupant and forgets it instead of dropping it
TeardownForget ==
    /\ \/ mpc = "run" /\ \A t \in Threads : tpc[t] = "free"
       \/ mpc = "taken"
    /\ \A t \in Threads : pc[t] = "idle"
    /\ inner' = Null
    /\ hist' = Record(hist, Entry(Main, "drop", heap, Null, inner), win)
    /\ pending' = Settle(pending, heap, inner, Null)
    /\ mpc' = "dropped"
    /\ UNCHANGED << heap, nalloc, freed, doubleFree, mres, pc, op, addr, ret,
                    held, steps, win, tpc, remain >>
    /\ vis' = Gone(vis, FromRawPtr(inner))
    /\ pub' = FALSE

\* lines 53-57: Drop takes &mut self, so no call is in flight and no thread
\* still borrows the container; it runs take() and drops the result at once
Teardown ==
    /\ \/ mpc = "run" /\ \A t \in Threads : tpc[t] = "free"
       \/ mpc = "taken"
    /\ \A t \in Threads : pc[t] = "idle"
    /\ LET r == AtomicSwap(inner, IntoRawPtr(None))
           b == FromRawPtr(r.old)
       IN  /\ inner' = r.slot
           /\ heap' = Release(heap, b)
           /\ freed' = Count(heap, freed, b)
           /\ doubleFree' = (doubleFree \/ Dangling(heap, b))
           /\ hist' = Record(hist, Entry(Main, "drop", heap, Null, r.old), win)
           /\ pending' = Settle(pending, heap, r.old, Null)
           /\ vis' = Gone(vis, b)
           /\ pub' = FALSE
    /\ mpc' = "dropped"
    /\ UNCHANGED << nalloc, mres, pc, op, addr, ret, held, steps, win, tpc,
                    remain >>

\* a step of any client, or the drop of the container
Next ==
    \/ \E t \in Threads, a \in Addrs, v \in Values : BoxNew(t, a, v)
    \/ \E t \in Threads, a \in Addrs : DropBox(t, a)
    \/ \E t \in Threads, o \in {"swap", "take", "store"},
          arg \in {None} \cup {Some(a) : a \in Addrs} : Call(t, o, arg)
    \/ \E t \in Threads : Exchange(t)
    \/ \E t \in Threads : FromRaw(t)
    \/ \E t \in Threads : StoreDrop(t)
    \/ Teardown

\* any number of threads calling swap, take and store in any interleaving
Spec == Init /\ [][Next]_vars

(* ------------------- one caller, as in test_simple --------------------- *)
\* lines 66-74: a single thread owns the container and calls it in sequence
SeqCaller == {1}

\* as Init, with a history long enough for three calls in a row
InitSeq ==
    /\ \E a \in Addrs, v \in Values :
          \/ NewState(None, a, v)
          \/ NewState(Some(a), a, v)
    /\ Idle
    /\ win = SeqHistLen
    /\ tpc = [t \in Threads |-> "free"]
    /\ remain = [t \in Threads |-> 0]

\* only the one caller moves
NextSeq ==
    \/ \E t \in SeqCaller, a \in Addrs, v \in Values : BoxNew(t, a, v)
    \/ \E t \in SeqCaller, a \in Addrs : DropBox(t, a)
    \/ \E t \in SeqCaller, o \in {"swap", "take", "store"},
          arg \in {None} \cup {Some(a) : a \in Addrs} : Call(t, o, arg)
    \/ \E t \in SeqCaller : Exchange(t)
    \/ \E t \in SeqCaller : FromRaw(t)
    \/ \E t \in SeqCaller : StoreDrop(t)
    \/ Teardown

SpecSeq == InitSeq /\ [][NextSeq]_vars

(* --------------------------- test_two_threads -------------------------- *)
\* line 79: the container is built empty; lines 82 and 95: remain starts at
\* the loop count in both threads
InitTwo ==
    /\ \E a \in Addrs, v \in Values : NewState(None, a, v)
    /\ Idle
    /\ win = HistLen
    /\ tpc = [t \in Threads |-> IF t \in {Ins, Rem} THEN "loop" ELSE "done"]
    /\ remain = [t \in Threads |-> IF t \in {Ins, Rem} THEN MaxRemain ELSE 0]

\* line 84: func1 boxes remain and enters swap(Some(box))
InsBegin(a) ==
    /\ tpc[Ins] = "loop"
    /\ pc[Ins] = "idle"
    /\ ~heap[a].live
    /\ heap' = Alloc(heap, nalloc, a, remain[Ins])
    /\ nalloc' = Bump(nalloc)
    /\ pc' = [pc EXCEPT ![Ins] = "l31"]
    /\ op' = [op EXCEPT ![Ins] = "swap"]
    /\ addr' = [addr EXCEPT ![Ins] = IntoRawPtr(Some(a))]
    /\ steps' = [steps EXCEPT ![Ins] = 1]
    /\ tpc' = [tpc EXCEPT ![Ins] = "called"]
    /\ UNCHANGED << inner, freed, doubleFree, mpc, mres, ret, held, hist, win,
                    pending, remain >>
    /\ vis' = Wrote(vis, Ins, {a})
    /\ UNCHANGED pub

\* line 97: func2 enters swap(None)
RemBegin ==
    /\ tpc[Rem] = "loop"
    /\ pc[Rem] = "idle"
    /\ pc' = [pc EXCEPT ![Rem] = "l31"]
    /\ op' = [op EXCEPT ![Rem] = "swap"]
    /\ addr' = [addr EXCEPT ![Rem] = IntoRawPtr(None)]
    /\ steps' = [steps EXCEPT ![Rem] = 1]
    /\ tpc' = [tpc EXCEPT ![Rem] = "called"]
    /\ UNCHANGED << inner, heap, nalloc, freed, doubleFree, mpc, mres, ret,
                    held, hist, win, pending, remain >>
    /\ UNCHANGED << vis, pub >>

\* a loop check that counts every swap, whatever it returned
LoopCheckAlways(t, success) ==
    /\ tpc[t] = "called"
    /\ pc[t] = "idle"
    /\ remain' = [remain EXCEPT ![t] = @ - 1]
    /\ tpc' = [tpc EXCEPT ![t] = IF remain[t] - 1 = 0 THEN "done" ELSE "loop"]
    /\ heap' = Release(heap, held[t])
    /\ freed' = Count(heap, freed, held[t])
    /\ doubleFree' = (doubleFree \/ Dangling(heap, held[t]))
    /\ held' = [held EXCEPT ![t] = {}]
    /\ UNCHANGED << inner, nalloc, mpc, mres, pc, op, addr, ret, steps, hist,
                    win, pending >>
    /\ vis' = Gone(vis, held[t])
    /\ UNCHANGED pub

\* lines 85-91 (func1, counting a.is_none()) and 98-104 (func2, counting
\* a.is_some()): remain is counted down, the loop ends at 0, and a is dropped
\* at the end of the loop body
LoopCheck(t, success) ==
    /\ tpc[t] = "called"
    /\ pc[t] = "idle"
    /\ LET left == IF success THEN remain[t] - 1 ELSE remain[t]
       IN  /\ remain' = [remain EXCEPT ![t] = left]
           /\ tpc' = [tpc EXCEPT ![t] = IF left = 0 THEN "done" ELSE "loop"]
    /\ heap' = Release(heap, held[t])
    /\ freed' = Count(heap, freed, held[t])
    /\ doubleFree' = (doubleFree \/ Dangling(heap, held[t]))
    /\ held' = [held EXCEPT ![t] = {}]
    /\ UNCHANGED << inner, nalloc, mpc, mres, pc, op, addr, ret, steps, hist,
                    win, pending >>
    /\ vis' = Gone(vis, held[t])
    /\ UNCHANGED pub

\* lines 85-90: func1 counts the swaps that returned None
InsCheck == LoopCheck(Ins, held[Ins] = None)
\* lines 98-103: func2 counts the swaps that returned Some
RemCheck == LoopCheck(Rem, held[Rem] # None)

\* lines 107-110: both threads are joined, then opt.take() is compared with
\* None and the temporary is dropped
MainTake ==
    /\ mpc = "run"
    /\ \A t \in Threads : tpc[t] = "done"
    /\ LET r == AtomicSwap(inner, IntoRawPtr(None))
           b == FromRawPtr(r.old)
       IN  /\ inner' = r.slot
           /\ mres' = b
           /\ heap' = Release(heap, b)
           /\ freed' = Count(heap, freed, b)
           /\ doubleFree' = (doubleFree \/ Dangling(heap, b))
           /\ hist' = Record(hist, Entry(Main, "take", heap, Null, r.old), win)
           /\ pending' = Settle(pending, heap, r.old, Null)
           /\ vis' = Gone(vis, b)
           /\ pub' = FALSE
    /\ mpc' = "taken"
    /\ UNCHANGED << nalloc, pc, op, addr, ret, held, steps, win, tpc, remain >>

\* the two spawned threads, then the main thread
NextTwo ==
    \/ \E a \in Addrs : InsBegin(a)
    \/ RemBegin
    \/ \E t \in {Ins, Rem} : Exchange(t)
    \/ \E t \in {Ins, Rem} : FromRaw(t)
    \/ InsCheck
    \/ RemCheck
    \/ MainTake
    \/ Teardown

SpecTwo == InitTwo /\ [][NextTwo]_vars

\* the steps of the thread running func1 (lines 81-92)
InsStep ==
    \/ \E a \in Addrs : InsBegin(a)
    \/ Exchange(Ins)
    \/ FromRaw(Ins)
    \/ InsCheck
\* the steps of the thread running func2 (lines 94-105)
RemStep ==
    \/ RemBegin
    \/ Exchange(Rem)
    \/ FromRaw(Rem)
    \/ RemCheck

\* test_two_threads with both spawned threads scheduled fairly: a thread that
\* can take a step is not passed over forever
SpecTwoFair ==
    InitTwo /\ [][NextTwo]_vars /\ WF_vars(InsStep) /\ WF_vars(RemStep)

(* ============================== claims ================================= *)
\* the k-th most recent exchange step of the ghost history (0: the last one)
H(k) == hist[Len(hist) - k]

\* C1: linearizability.  The exchange steps (line 31, and the drain of Drop)
\* form one total order; every exchange step reads out exactly the value the
\* exchange step before it installed (the constructor's store being the
\* first), and the call hands its caller exactly the box it read out.
C1_Linearizable ==
    [][ /\ \A t \in Threads :
              Exchange(t) => /\ IdOf(heap, addr'[t]) = H(0).nid
                             /\ (addr'[t] = Null) = (H(0).nid = 0)
        /\ Teardown => Len(hist') > 0 /\ hist'[Len(hist')].oid = H(0).nid
        /\ \A t \in Threads :
              (FromRaw(t) /\ op[t] # "store") =>
                  held'[t] = held[t] \cup ({addr[t]} \ {Null}) ]_vars

\* C1 witness: a call replaced one value by another while the other thread
\* is between its own exchange step and its return
C1_Witness ==
    /\ H(0).t \in Threads /\ H(0).nid # 0 /\ H(0).oid # 0
    /\ \E t \in Threads : t # H(0).t /\ pc[t] = "l32"

\* C2: no two calls obtain the same occupant.  For every value, the number
\* of exchange steps (teardown included) that read it out of the slot never
\* exceeds the number of exchange steps that installed it.
C2_NoSharedOccupant == \A i \in Ids : pending[i] >= 0

\* C2 witness: two concurrent takes are past their exchange steps; one got the
\* occupant and the other got nothing
C2_Witness ==
    \E t, u \in Threads :
        /\ t # u /\ pc[t] = "l32" /\ pc[u] = "l32"
        /\ op[t] = "take" /\ op[u] = "take"
        /\ addr[t] # Null /\ addr[u] = Null

\* C3: no loss.  Once the container is destroyed, every value that was ever
\* installed in the slot has been read out by a call or by the teardown
\* drain: no install is left without its read-out.
C3_NoLoss == mpc = "dropped" => \A i \in Ids : pending[i] = 0

\* C3 witness: the container is destroyed and the teardown drain read out a
\* value that a client call had installed
C3_Witness ==
    /\ mpc = "dropped" /\ H(0).op = "drop" /\ H(0).oid > 1
    /\ pending = [i \in Ids |-> 0]

\* C4: no double free, no leak.  No box is released twice, and once the
\* container is destroyed and the callers have dropped every box they own,
\* every value constructed has been released exactly once.
C4_ReleasedOnce ==
    /\ ~doubleFree
    /\ \A i \in Ids : freed[i] <= 1
    /\ (mpc = "dropped" /\ \A t \in Threads : held[t] = {})
          => /\ \A i \in 1..nalloc : freed[i] = 1
             /\ \A a \in Addrs : ~heap[a].live

\* C4 witness: the container is destroyed after every client box was
\* allocated, nothing is held any more, and the drain released a value
C4_Witness ==
    /\ mpc = "dropped" /\ \A t \in Threads : held[t] = {}
    /\ nalloc = MaxAllocs /\ H(0).oid # 0

\* the places a thread can own the box at address a: a box it holds, the raw
\* address inside its call (lines 26-35), the box store is about to drop
Owns(t, a) ==
    (IF a \in held[t] THEN 1 ELSE 0) + (IF addr[t] = a THEN 1 ELSE 0)
        + (IF a \in ret[t] THEN 1 ELSE 0)
\* the same summed over threads 1..n
RECURSIVE OwnsUpTo(_, _)
OwnsUpTo(n, a) == IF n = 0 THEN 0 ELSE Owns(n, a) + OwnsUpTo(n - 1, a)
\* the number of holders of the box at address a, the slot included
Holders(a) == (IF inner = a THEN 1 ELSE 0) + OwnsUpTo(NThreads, a)

\* C5: unique ownership at every instant.  The slot is empty or holds the
\* address of a live value, and every live value has exactly one holder (the
\* slot or one thread, as a box or as an in-flight raw address), every
\* released one none.
C5_UniqueOwner ==
    /\ inner # Null => heap[inner].live
    /\ \A a \in Addrs : Holders(a) = IF heap[a].live THEN 1 ELSE 0

\* C5 witness: the slot is occupied, one thread is past its exchange step
\* with the address it removed, the other is before its exchange step with
\* the address it is about to install
C5_Witness ==
    /\ inner # Null
    /\ \E t, u \in Threads :
          /\ pc[t] = "l32" /\ addr[t] # Null
          /\ pc[u] = "l31" /\ addr[u] # Null

\* C6: test_two_threads.  Once both threads have left their loops they have
\* counted the same number of inserts and removals and the slot is empty, and
\* the final take() of line 110 returns None.
C6_TwoThreadsBalanced ==
    /\ (tpc[Ins] = "done" /\ tpc[Rem] = "done")
          => /\ MaxRemain - remain[Ins] = MaxRemain - remain[Rem]
             /\ inner = Null
    /\ mpc # "run" => mres = None

\* C6 witness: both threads are done, the final take has run, and the
\* inserting thread had to replace a value at least once on the way
C6_Witness ==
    /\ tpc[Ins] = "done" /\ tpc[Rem] = "done" /\ mpc = "taken"
    /\ \E i \in Ids : freed[i] = 1 /\ nalloc = MaxAllocs

\* the last three exchange steps were run by t: the first left the slot
\* empty, the second is swap(Some(v)), the third is take()
RoundTrip(t) ==
    /\ Len(hist) >= 3
    /\ H(2).nid = 0
    /\ H(1).t = t /\ H(1).op = "swap" /\ H(1).nid # 0
    /\ H(0).t = t /\ H(0).op = "take"

\* C7: round trip.  swap(Some(v)) on an empty container returns None, and
\* the take() right after it returns Some(v): the same box, still live, with
\* the payload it was stored with, and the slot is left empty.
C7_RoundTrip ==
    [][ \A t \in Threads :
          (FromRaw(t) /\ RoundTrip(t)) =>
              /\ H(1).oid = 0
              /\ H(0).oid = H(1).nid
              /\ inner = Null /\ inner' = Null
              /\ \E a \in Addrs :
                    /\ held'[t] = held[t] \cup {a}
                    /\ a \notin held[t]
                    /\ heap'[a].live
                    /\ heap'[a].id = H(1).nid
                    /\ heap'[a].val = H(1).nval ]_vars

\* C7 witness: the take of a round trip has returned and its caller holds
\* the box that the swap installed
C7_Witness ==
    \E t \in SeqCaller :
        /\ RoundTrip(t) /\ pc[t] = "idle" /\ H(0).oid = H(1).nid
        /\ \E a \in held[t] : heap[a].id = H(1).nid /\ heap[a].val = MaxVal

\* the last three exchange steps were run by t: store(Some(a)),
\* store(Some(b)), swap(Some(c))
StoreStoreSwap(t) ==
    /\ Len(hist) >= 3
    /\ H(2).t = t /\ H(2).op = "store" /\ H(2).nid # 0
    /\ H(1).t = t /\ H(1).op = "store" /\ H(1).nid # 0
    /\ H(0).t = t /\ H(0).op = "swap" /\ H(0).nid # 0

\* the last two exchange steps were run by t: store(Some(a)), store(Some(b))
StoreStore(t) ==
    /\ Len(hist) >= 2
    /\ H(1).t = t /\ H(1).op = "store" /\ H(1).nid # 0
    /\ H(0).t = t /\ H(0).op = "store" /\ H(0).nid # 0

\* C8: replacement releases old.  In store(Some(a)); store(Some(b));
\* swap(Some(c)) the second store reads a out and releases it exactly once,
\* at its drop (line 46) and not before; the swap reads b out and returns it
\* live, c is in the slot, and neither b nor c has been released.
C8_ReplacementReleasesOld ==
    \A t \in Threads :
        /\ (StoreStore(t) /\ pc[t] \in {"l32", "l46"})
              => /\ H(0).oid = H(1).nid
                 /\ freed[H(1).nid] = 0 /\ freed[H(0).nid] = 0
        /\ (StoreStore(t) /\ pc[t] = "idle")
              => freed[H(1).nid] = 1 /\ freed[H(0).nid] = 0
        /\ (StoreStoreSwap(t) /\ pc[t] = "l32")
              => /\ H(1).oid = H(2).nid /\ H(0).oid = H(1).nid
                 /\ freed[H(2).nid] = 1
                 /\ freed[H(1).nid] = 0 /\ freed[H(0).nid] = 0
                 /\ addr[t] # Null /\ heap[addr[t]].live
                 /\ heap[addr[t]].id = H(1).nid
                 /\ inner # Null /\ heap[inner].live
                 /\ heap[inner].id = H(0).nid

\* C8 witness: the swap of store; store; swap is past its exchange step: a
\* is released, b is in the caller's hands, c is in the slot
C8_Witness ==
    \E t \in SeqCaller :
        /\ StoreStoreSwap(t) /\ pc[t] = "l32"
        /\ freed[H(2).nid] = 1 /\ IdOf(heap, addr[t]) = H(1).nid
        /\ IdOf(heap, inner) = H(0).nid

\* C9: take() on an empty container (the exchange step before it installed
\* nothing) reads out null and leaves the slot empty, returns None to its
\* caller, and releases nothing, also when the take before it found the
\* container empty too.
C9_TakeOnEmpty ==
    [][ \A t \in Threads :
          /\ (Exchange(t) /\ op[t] = "take" /\ H(0).nid = 0)
                => /\ addr'[t] = Null /\ inner' = Null
                   /\ heap' = heap /\ freed' = freed
          /\ (FromRaw(t) /\ op[t] = "take" /\ Len(hist) >= 2 /\ H(0).t = t
                /\ H(0).op = "take" /\ H(1).nid = 0)
                => /\ held'[t] = held[t] /\ pc'[t] = "idle"
                   /\ inner' = Null
                   /\ heap' = heap /\ freed' = freed ]_vars

\* C9 witness: two takes in a row on an empty container have returned
C9_Witness ==
    \E t \in SeqCaller :
        /\ Len(hist) >= 3 /\ pc[t] = "idle" /\ inner = Null
        /\ H(2).nid = 0
        /\ H(1).t = t /\ H(1).op = "take" /\ H(1).oid = 0
        /\ H(0).t = t /\ H(0).op = "take" /\ H(0).oid = 0

\* C10: wait-freedom.  While the container is live every thread outside a
\* call can enter swap, take and store; a thread inside a call can always
\* take its next step, whatever the slot holds and wherever the other
\* threads are, and a call is over after at most 4 of its own steps (entry
\* with into_raw, the exchange, from_raw, and for store the drop).
C10_WaitFree ==
    \A t \in Threads :
        /\ (pc[t] = "idle" /\ mpc = "run")
              => \A o \in {"swap", "take", "store"} : ENABLED Call(t, o, None)
        /\ pc[t] = "l31" => ENABLED Exchange(t)
        /\ pc[t] = "l32" => ENABLED FromRaw(t)
        /\ pc[t] = "l46" => ENABLED StoreDrop(t)
        /\ pc[t] = "l31" => steps[t] = 1
        /\ pc[t] = "l32" => steps[t] = 2
        /\ pc[t] = "l46" => steps[t] = 3
        /\ steps[t] <= 4

\* C10 witness: both threads are about to install a value into an occupied
\* slot at the same time
C10_Witness ==
    /\ inner # Null
    /\ \A t \in Threads : pc[t] = "l31" /\ addr[t] # Null

\* C11: store(x) is swap(x) with the result dropped.  The exchange step of a
\* store puts x in the slot and reads out the occupant of that instant (never x
\* itself); from_raw hands that occupant to store and nothing is released yet;
\* the drop of line 46 releases exactly that occupant, once, and nothing when
\* the slot was empty; x is still live in the slot when no later exchange step
\* removed it.  store(None) is the case x = null: the slot is left empty.
C11_StoreReleasesOld ==
    [][ \A t \in Threads :
          /\ (Exchange(t) /\ op[t] = "store")
                => /\ inner' = addr[t] /\ addr'[t] = inner
                   /\ addr[t] # Null => addr[t] # inner
                   /\ heap' = heap /\ freed' = freed
          /\ (FromRaw(t) /\ op[t] = "store")
                => /\ ret'[t] = {addr[t]} \ {Null}
                   /\ heap' = heap /\ freed' = freed
          /\ StoreDrop(t)
                => /\ \A a \in ret[t] : heap[a].live /\ ~heap'[a].live
                   /\ \A a \in Addrs \ ret[t] : heap'[a] = heap[a]
                   /\ \A i \in Ids :
                         freed'[i] = freed[i]
                            + (IF \E a \in ret[t] : heap[a].id = i THEN 1 ELSE 0)
                   /\ \A i \in Ids : freed'[i] <= 1
                   /\ ret[t] = None => heap' = heap /\ freed' = freed
                   /\ doubleFree' = doubleFree
                   /\ (H(0).t = t /\ H(0).op = "store")
                         => /\ IdOf(heap', inner') = H(0).nid
                            /\ (inner' = Null) = (H(0).nid = 0)
                            /\ inner' # Null => heap'[inner'].live
                            /\ H(0).nid # 0 => freed'[H(0).nid] = 0
                            /\ H(0).oid # 0 => freed'[H(0).oid] = 1 ]_vars

\* C11 witness: a store(Some(x)) on an occupied slot has returned while the
\* other thread is inside a call: the old occupant is released, x is in the
\* slot and live
C11_Witness ==
    \E t, u \in Threads :
        /\ t # u /\ pc[t] = "idle" /\ pc[u] = "l31"
        /\ H(0).t = t /\ H(0).op = "store" /\ H(0).oid # 0 /\ H(0).nid # 0
        /\ freed[H(0).oid] = 1 /\ freed[H(0).nid] = 0
        /\ IdOf(heap, inner) = H(0).nid

\* C12: take() is swap(None).  A take enters the exchange with null; its
\* exchange step reads out whatever the slot holds at that instant and leaves
\* the slot empty, wherever the other threads are in their own calls; from_raw
\* returns exactly that occupant (None for null) to the caller, and nothing is
\* released on the way.
C12_TakeIsSwapNone ==
    [][ \A t \in Threads :
          /\ (pc[t] = "idle" /\ pc'[t] = "l31" /\ op'[t] = "take")
                => addr'[t] = Null /\ held'[t] = held[t]
          /\ (Exchange(t) /\ op[t] = "take")
                => /\ addr[t] = Null
                   /\ addr'[t] = inner /\ inner' = Null
                   /\ heap' = heap /\ freed' = freed
          /\ (FromRaw(t) /\ op[t] = "take")
                => /\ held'[t] = held[t] \cup ({addr[t]} \ {Null})
                   /\ addr[t] # Null => heap'[addr[t]].live
                   /\ pc'[t] = "idle"
                   /\ heap' = heap /\ freed' = freed ]_vars

\* C12 witness: a take is past its exchange step with the occupant it read
\* out, the slot is empty, and the other thread is about to install a value
C12_Witness ==
    \E t, u \in Threads :
        /\ t # u /\ op[t] = "take" /\ pc[t] = "l32" /\ addr[t] # Null
        /\ inner = Null /\ H(0).t = t
        /\ pc[u] = "l31" /\ addr[u] # Null

\* C13: teardown.  Drop runs one exchange with null: the slot is empty
\* afterwards, the occupant of that instant is released exactly once (it was
\* live and not released before), every other allocation is left alone, and
\* nothing is released when the slot was already empty.
C13_Teardown ==
    [][ Teardown =>
          /\ inner' = Null /\ mpc' = "dropped"
          /\ hist'[Len(hist')].op = "drop"
          /\ hist'[Len(hist')].oid = IdOf(heap, inner)
          /\ hist'[Len(hist')].nid = 0
          /\ \A a \in Addrs \ {inner} : heap'[a] = heap[a]
          /\ inner # Null
                => /\ heap[inner].live /\ ~heap'[inner].live
                   /\ \A i \in Ids :
                         /\ heap[inner].id = i
                               => freed[i] = 0 /\ freed'[i] = 1
                         /\ heap[inner].id # i => freed'[i] = freed[i]
          /\ inner = Null => heap' = heap /\ freed' = freed
          /\ doubleFree' = doubleFree ]_vars

\* C13 witness: the container was destroyed right after a store had installed
\* a value; the drain read that value out and it is released once
C13_Witness ==
    /\ mpc = "dropped" /\ inner = Null
    /\ H(0).t = Main /\ H(0).op = "drop" /\ H(0).oid # 0
    /\ freed[H(0).oid] = 1
    /\ \E a \in Addrs : heap[a].live

\* the addresses at which an allocation lives
Live(h) == {a \in Addrs : h[a].live}

\* C14: frame of swap and take.  Every step of a thread inside swap or take
\* (entry, exchange, from_raw) leaves the heap, the release counts and the
\* allocation count unchanged and touches no other thread's boxes; it only
\* moves addresses between the caller's boxes, the call's local and the slot.
\* While the container is live, a step that releases an allocation is the drop
\* inside store, a caller dropping a box it owns, or teardown.
C14_SwapTakeFrame ==
    [][ /\ \A t \in Threads :
              (pc'[t] # pc[t] /\ (op[t] \in {"swap", "take"}
                                    \/ op'[t] \in {"swap", "take"}))
                  => /\ heap' = heap /\ freed' = freed /\ nalloc' = nalloc
                     /\ doubleFree' = doubleFree /\ ret' = ret
                     /\ \A u \in Threads \ {t} :
                           held'[u] = held[u] /\ addr'[u] = addr[u]
                     /\ (held'[t] \cup {addr'[t], inner'}) \ {Null}
                           = (held[t] \cup {addr[t], inner}) \ {Null}
        /\ (freed' # freed \/ Live(heap) \ Live(heap') # {})
              => \/ \E t \in Threads : StoreDrop(t)
                 \/ \E t \in Threads, a \in Addrs : DropBox(t, a)
                 \/ Teardown ]_vars

\* C14 witness: a swap(Some(x)) on an occupied slot has returned: its caller
\* holds the old occupant, live and unreleased, and x is in the slot, while
\* the other thread is inside a store that is about to drop a value
C14_Witness ==
    \E t, u \in Threads :
        /\ t # u /\ pc[t] = "idle" /\ pc[u] = "l46" /\ ret[u] # None
        /\ \E a \in held[t] : heap[a].live /\ freed[heap[a].id] = 0
        /\ inner # Null /\ freed[IdOf(heap, inner)] = 0
        /\ \E i \in Ids : freed[i] = 0 /\ i <= nalloc

\* C15: construction.  Before the first exchange step of a client the slot
\* holds exactly what new was given (nothing for new(None), the box with its
\* payload for new(Some(v))), the constructor's store read out nothing, and
\* right after new nothing has been released; the first take or swap reads
\* that value out and returns it to its caller, live and with its payload.
C15_Construction ==
    [][ /\ Len(hist) = 1
              => /\ H(0).t = Main /\ H(0).op = "store" /\ H(0).oid = 0
                 /\ IdOf(heap, inner) = H(0).nid
                 /\ (inner = Null) = (H(0).nid = 0)
                 /\ inner # Null => /\ heap[inner].live
                                    /\ heap[inner].val = H(0).nval
                                    /\ freed[H(0).nid] = 0
                 /\ ~doubleFree
                 /\ nalloc = (IF H(0).nid = 0 THEN 0 ELSE 1)
                       => /\ freed = [i \in Ids |-> 0]
                          /\ Live(heap) = {inner} \ {Null}
        /\ \A t \in Threads :
              (Exchange(t) /\ Len(hist) = 1 /\ op[t] \in {"swap", "take"})
                  => addr'[t] = inner /\ IdOf(heap, addr'[t]) = H(0).nid
        /\ \A t \in Threads :
              (FromRaw(t) /\ Len(hist) = 2 /\ op[t] \in {"swap", "take"})
                  => /\ hist[1].nid = 0 => held'[t] = held[t]
                     /\ hist[1].nid # 0
                           => \E a \in Addrs :
                                 /\ held'[t] = held[t] \cup {a}
                                 /\ a \notin held[t]
                                 /\ heap'[a].live
                                 /\ heap'[a].id = hist[1].nid
                                 /\ heap'[a].val = hist[1].nval
                                 /\ freed'[hist[1].nid] = 0 ]_vars

\* C15 witness: the first call on a container built by new(Some(v)) was a take
\* and has returned: its caller holds the constructor's box with its payload
C15_Witness ==
    \E t \in SeqCaller :
        /\ Len(hist) = 2 /\ pc[t] = "idle"
        /\ hist[1].t = Main /\ hist[1].nid # 0 /\ hist[1].nval = MaxVal
        /\ H(0).t = t /\ H(0).op = "take" /\ H(0).oid = hist[1].nid
        /\ \E a \in held[t] : heap[a].id = hist[1].nid /\ heap[a].val = MaxVal

\* C16 as stated: among the exchange steps of the history no value is
\* installed by two of them and no value is read out by two of them
C16_NeverTwice ==
    \A i, j \in 1..Len(hist) :
        i < j => /\ hist[i].nid # 0 => hist[i].nid # hist[j].nid
                 /\ hist[i].oid # 0 => hist[i].oid # hist[j].oid

\* C16, amended: installs and read-outs of a value alternate.  Every exchange
\* step reads out what the exchange step right before it installed, and never
\* the value it installs itself; per value, installs exceed read-outs by at
\* most one, and by one exactly while the value is in the slot; a value is
\* installed a second time only after it was read out in between (its caller
\* got the box back and passed it in again), and read out a second time only
\* after it was installed again in between.
C16_InstallReadAlternate ==
    /\ \A i \in Ids : /\ pending[i] \in {0, 1}
                      /\ (pending[i] = 1) = (IdOf(heap, inner) = i)
    /\ \A k \in 1..Len(hist) :
          /\ k > 1 => hist[k].oid = hist[k - 1].nid
          /\ hist[k].nid # 0 => hist[k].nid # hist[k].oid
    /\ \A i, j \in 1..Len(hist) :
          i < j =>
             /\ (hist[i].nid # 0 /\ hist[i].nid = hist[j].nid)
                   => \E k \in (i + 1)..(j - 1) : hist[k].oid = hist[i].nid
             /\ (hist[i].oid # 0 /\ hist[i].oid = hist[j].oid)
                   => \E k \in (i + 1)..(j - 1) : hist[k].nid = hist[i].oid

\* C16 witness: the caller installed a box, took it back and installed the
\* same box again: the value is in the slot for the second time
C16_Witness ==
    \E t \in SeqCaller :
        /\ Len(hist) = 3 /\ pc[t] = "idle"
        /\ hist[1].nid # 0 /\ hist[1].t = t
        /\ hist[2].oid = hist[1].nid /\ hist[2].nid = 0 /\ hist[2].op = "take"
        /\ hist[3].nid = hist[1].nid /\ hist[3].op \in {"swap", "store"}
        /\ IdOf(heap, inner) = hist[1].nid /\ freed[hist[1].nid] = 0

\* the addresses of the boxes thread t owns: the boxes it holds, the address
\* its call read out or is about to install, the box store is about to drop
Owned(t) == (held[t] \cup ret[t] \cup {addr[t]}) \ {Null}

\* C17: acquire-release visibility.  The exchange that installs a value
\* releases the installing thread's writes to the pointee, and the exchange
\* that reads the value out acquires them: every thread observes the pointee
\* of every box it owns as its previous owner left it, from the exchange step
\* that handed it the address onwards, and the occupant of the slot is always
\* published.
C17_AcqRelVisibility ==
    [][ /\ inner # Null => pub
        /\ \A t \in Threads : Owned(t) \subseteq vis[t]
        /\ \A t \in Threads :
              (Exchange(t) /\ inner # Null)
                  => addr'[t] = inner /\ inner \in vis'[t] ]_vars

\* C17 witness: a thread is past the exchange step of a swap that read out a
\* value installed by the other thread, which is inside its next call
C17_Witness ==
    \E t, u \in Threads :
        /\ t # u /\ pc[t] = "l32" /\ addr[t] # Null /\ H(0).t = t
        /\ addr[t] \in vis[t] /\ addr[t] \notin vis[u]
        /\ pc[u] = "l31" /\ addr[u] # Null /\ inner # Null

\* the inserting thread has run the exchange step of its last swap: it left
\* its loop, or its current swap is past the exchange step, observed the slot
\* empty, and is the last one it has to count
InsSwapsOver ==
    \/ tpc[Ins] = "done"
    \/ /\ tpc[Ins] = "called" /\ pc[Ins] \in {"l32", "idle"}
       /\ addr[Ins] = Null /\ held[Ins] = None
       /\ remain[Ins] = 1

\* C18: termination of test_two_threads.  With both threads scheduled
\* fairly, both eventually leave their loops (so both joins return); and the
\* exchange step of the removing thread's last successful removal (the one
\* that brings its remain to 0) happens only after the exchange step of the
\* inserting thread's last swap.
C18_Terminates ==
    /\ <>(tpc[Ins] = "done" /\ tpc[Rem] = "done")
    /\ [][ (Exchange(Rem) /\ inner # Null /\ remain[Rem] = 1)
              => InsSwapsOver ]_vars

\* C18 witness: both threads have left their loops, the last exchange step
\* was the removing thread's last removal, and the inserting thread needed
\* more swaps than MaxRemain because it found the slot occupied on the way
C18_Witness ==
    /\ tpc[Ins] = "done" /\ tpc[Rem] = "done" /\ mpc = "run"
    /\ remain[Ins] = 0 /\ remain[Rem] = 0
    /\ H(0).t = Rem /\ H(0).oid # 0 /\ inner = Null
    /\ nalloc > MaxRemain

\* the number of swaps of the inserting thread whose exchange step observed
\* the slot empty: those it has counted (lines 85-87) and the one that is past
\* its exchange step and not counted yet
InsObservedEmpty ==
    (MaxRemain - remain[Ins])
       + (IF /\ tpc[Ins] = "called" /\ pc[Ins] \in {"l32", "idle"}
             /\ addr[Ins] = Null /\ held[Ins] = None
          THEN 1 ELSE 0)
\* the number of swaps of the removing thread whose exchange step read out a
\* value: those it has counted (lines 98-100) and the one not counted yet
RemReceived ==
    (MaxRemain - remain[Rem])
       + (IF /\ tpc[Rem] = "called" /\ pc[Rem] \in {"l32", "idle"}
             /\ (addr[Rem] # Null \/ held[Rem] # None)
          THEN 1 ELSE 0)
\* inserts that found the slot empty minus removals that found a value
Difference == InsObservedEmpty - RemReceived

\* C19: invariant of test_two_threads.  Before and after every step the
\* difference is 0 or 1, and it is 1 exactly when the slot is occupied.  An
\* exchange step of the inserting thread that finds the slot occupied puts its
\* new box in the slot and reads the old occupant out without changing the
\* difference, and the loop body then releases that old occupant without
\* counting the swap.
C19_Difference ==
    [][ /\ Difference \in {0, 1} /\ (Difference = 1) = (inner # Null)
        /\ Difference' \in {0, 1} /\ (Difference' = 1) = (inner' # Null)
        /\ (Exchange(Ins) /\ inner # Null)
              => /\ inner' = addr[Ins] /\ inner' # Null
                 /\ addr'[Ins] = inner
                 /\ Difference' = Difference
        /\ (InsCheck /\ held[Ins] # None)
              => /\ \A a \in held[Ins] : heap[a].live /\ ~heap'[a].live
                 /\ held'[Ins] = None
                 /\ remain' = remain
                 /\ Difference' = Difference ]_vars

\* C19 witness: the inserting thread has replaced an occupant and holds it,
\* not yet released; the slot is occupied, the difference is 1, and the
\* removing thread is about to run its exchange step
C19_Witness ==
    /\ tpc[Ins] = "called" /\ pc[Ins] = "idle" /\ held[Ins] # None
    /\ inner # Null /\ Difference = 1
    /\ pc[Rem] = "l31"

====
